---- MODULE Spec2Model ----
(***************************************************************************)
(* State-machine model of alamar_absorbance.py: the range parser           *)
(* get_replicate_cells_from_range, the absorbance calculator               *)
(* process_replicates and the interactive pipeline main.                   *)
(*                                                                         *)
(* Representation.                                                         *)
(*  - A cell address "A7" is the pair <<"A", 7>> that coordinate_from_string*)
(*    returns for it; an Excel address "A1:A8" is the sequence of its      *)
(*    ':'-separated cell tokens, <<<<"A",1>>, <<"A",8>>>>.                 *)
(*  - A cell value is a record [kind, v]: kind "none" (empty cell, None),  *)
(*    "num" (a number, v) or "text" (a string).                            *)
(*  - Readings and adjusted absorbances are exact integers (fixed-point    *)
(*    units); means are kept as sum and length, quartiles as 4*Q, the      *)
(*    outlier thresholds as 8*T, so every comparison is exact.             *)
(*  - A viability percentage is a record [kind, tenths]: kind "num" with   *)
(*    the value in tenths of a percent, or "nan" / "inf" / "-inf" for the  *)
(*    IEEE results of a division by a zero control average.                *)
(***************************************************************************)
EXTENDS Integers, Sequences, FiniteSets, TLC

VARIABLES pc, exc, console, sheet, open_apps, open_books,
          selected_range, replicate_cells, replicate_values,
          positive_control_name, positive_control_replicate_values,
          remove_outliers, num_samples, idx, sample_name, samples_data,
          table_data, filtered_values, entered

(***************************************************************************)
(* pc          position in main (or in the function called on its own)      *)
(* exc         the exception that propagated out uncaught, or "none"        *)
(* console     the kinds of messages printed and prompts issued so far      *)
(* sheet       workbook[sheet_name], cell address -> cell value (line 95)   *)
(* open_apps   xw.App instances created and not yet quit (lines 102, 142)   *)
(* open_books  workbooks opened in Excel and not yet closed (lines 103, 143)*)
(* selected_range, replicate_cells, replicate_values                        *)
(*             argument and results of the two functions called on their    *)
(*             own; in main they are locals that die within one step        *)
(* positive_control_name, positive_control_replicate_values,                *)
(* remove_outliers, num_samples, sample_name, samples_data, table_data,     *)
(* filtered_values                                                          *)
(*             the locals of main of the same names                         *)
(* idx         iterations of the sample loop of line 137 completed          *)
(* entered     history: the name and the selection entered per iteration    *)
(***************************************************************************)
vars == <<pc, exc, console, sheet, open_apps, open_books,
          selected_range, replicate_cells, replicate_values,
          positive_control_name, positive_control_replicate_values,
          remove_outliers, num_samples, idx, sample_name, samples_data,
          table_data, filtered_values, entered>>

----------------------------------------------------------------------------
(* Bounds *)

\* rows of the worksheet that hold data in the pipeline model
SheetRows == 2
\* largest number of additional samples the user asks for
MaxSamples == 2
\* largest row number of a range handed to the range parser on its own
MaxRow == 8
\* rows of the worksheet handed to process_replicates on its own
ProcRows == 4
\* largest number of replicate values of a sample in the aggregation model
MaxReps == 5

(* Program constants *)
K570 == 117216
K600 == 80586

----------------------------------------------------------------------------
(* Cell values *)

NoneVal == [kind |-> "none", v |-> 0]
TextVal == [kind |-> "text", v |-> 0]
Num(n) == [kind |-> "num", v |-> n]

\* sheet[cell].value : openpyxl creates an empty cell (value None) for any
\* address outside the stored data
CellValue(sh, cell) ==
    IF cell \in DOMAIN sh THEN sh[cell] ELSE NoneVal

----------------------------------------------------------------------------
(* get_replicate_cells_from_range *)

\* for row in range(start_row, end_row + 1, 2): append ((col,row),(col,row+1))
RECURSIVE RangeLoop(_, _, _)
RangeLoop(start_col, row, end_row) ==
    IF row > end_row THEN <<>>
    ELSE <<  << <<start_col, row>>, <<start_col, row + 1>> >>  >>
         \o RangeLoop(start_col, row + 2, end_row)

\* start_cell, end_cell = cell_range.split(':') raises ValueError unless the
\* address has exactly two tokens
ParseRaises(cell_range) == Len(cell_range) # 2

\* variant: the 600 nm cell is taken from the first row of each pair
get_replicate_cells_from_range_Swapped(cell_range) ==
    LET cells == RangeLoop(cell_range[1][1], cell_range[1][2], cell_range[2][2])
    IN  [i \in 1..Len(cells) |-> <<cells[i][2], cells[i][1]>>]

get_replicate_cells_from_range(cell_range) ==
    LET start_cell == cell_range[1]
        end_cell   == cell_range[2]
        start_col  == start_cell[1]
        start_row  == start_cell[2]
        end_row    == end_cell[2]
    IN  RangeLoop(start_col, start_row, end_row)

----------------------------------------------------------------------------
(* process_replicates *)

Adjusted(value_570, value_600) == (value_570 * K570) - (value_600 * K600)

\* variant: only the 570 nm reading is tested for None
PairPresent_OnlyFirst(sh, p) == CellValue(sh, p[1]).kind # "none"

\* both readings present: the arithmetic of line 58 raises TypeError when a
\* reading is a string
PairPresent(sh, p) ==
    /\ CellValue(sh, p[1]).kind # "none"
    /\ CellValue(sh, p[2]).kind # "none"

PairRaises(sh, p) ==
    /\ PairPresent(sh, p)
    /\ \/ CellValue(sh, p[1]).kind = "text"
       \/ CellValue(sh, p[2]).kind = "text"

\* the loop of process_replicates from pair k on; acc is the running result
\* [raised, values, warnings]
RECURSIVE ProcessLoop(_, _, _, _)
ProcessLoop(sh, cells, k, acc) ==
    IF k > Len(cells) THEN acc
    ELSE IF PairPresent(sh, cells[k])
         THEN IF PairRaises(sh, cells[k])
              THEN [acc EXCEPT !.raised = TRUE]
              ELSE ProcessLoop(sh, cells, k + 1,
                     [acc EXCEPT !.values =
                        Append(@, Adjusted(CellValue(sh, cells[k][1]).v,
                                           CellValue(sh, cells[k][2]).v))])
         ELSE ProcessLoop(sh, cells, k + 1,
                     [acc EXCEPT !.warnings = Append(@, cells[k])])

process_replicates(sh, cells) ==
    ProcessLoop(sh, cells, 1, [raised |-> FALSE, values |-> <<>>, warnings |-> <<>>])

----------------------------------------------------------------------------
(* Viability aggregation: the arithmetic of lines 125-127 and 174-198 *)

RECURSIVE SumSeq(_)
SumSeq(s) == IF s = <<>> THEN 0 ELSE Head(s) + SumSeq(Tail(s))

\* 4 * np.percentile(values, 25*q) with numpy's default linear interpolation:
\* virtual index q*(n-1)/4 into the sorted values, lerp between the neighbours
Percentile4(values, q) ==
    LET s    == SortSeq(values, LAMBDA a, b : a < b)
        pos4 == q * (Len(values) - 1)
        lo   == pos4 \div 4
        r    == pos4 % 4
    IN  IF r = 0 THEN 4 * s[lo + 1]
        ELSE 4 * s[lo + 1] + r * (s[lo + 2] - s[lo + 1])

\* 8 * Tmin and 8 * Tmax of lines 181-186
Tmin8(values) ==
    2 * Percentile4(values, 1) - 3 * (Percentile4(values, 3) - Percentile4(values, 1))
Tmax8(values) ==
    2 * Percentile4(values, 3) + 3 * (Percentile4(values, 3) - Percentile4(values, 1))

\* variant: the thresholds themselves count as outliers
InBounds_Strict(values, v) == 8 * v > Tmin8(values) /\ 8 * v < Tmax8(values)

\* replicate_values[(replicate_values >= Tmin) & (replicate_values <= Tmax)]
InBounds(values, v) == 8 * v >= Tmin8(values) /\ 8 * v <= Tmax8(values)

IQRFilter(values) == SelectSeq(values, LAMBDA v : InBounds(values, v))

\* variant: the user's answer is ignored
FilterApplies_Always(remove, values) == Len(values) > 2

\* the condition of line 179
FilterApplies(remove, values) == remove /\ Len(values) > 2

\* lines 179-192
FilterValues(remove, values) ==
    IF FilterApplies(remove, values) THEN IQRFilter(values) ELSE values

\* n/d rounded to the nearest integer, ties to the even one (d > 0)
RoundHalfEven(n, d) ==
    LET q == n \div d
        r == n % d
    IN  IF 2 * r < d THEN q
        ELSE IF 2 * r > d THEN q + 1
        ELSE IF q % 2 = 0 THEN q ELSE q + 1

Pct(t) == [kind |-> "num", tenths |-> t]
NonFinite(k) == [kind |-> k, tenths |-> 0]

\* round((average / positive_control_average) * 100, 1), in tenths; an empty
\* kept list has mean nan and a zero control average divides to inf or nan
\* (numpy floats warn, they do not raise)
ViabilityPercentage(kept, control) ==
    LET n == 1000 * SumSeq(kept) * Len(control)
        d == Len(kept) * SumSeq(control)
    IN  IF kept = <<>> THEN NonFinite("nan")
        ELSE IF d = 0
             THEN IF n = 0 THEN NonFinite("nan")
                  ELSE IF n > 0 THEN NonFinite("inf") ELSE NonFinite("-inf")
        ELSE IF d > 0 THEN Pct(RoundHalfEven(n, d))
        ELSE Pct(RoundHalfEven(-n, -d))

\* positive_control_viability_percentage = 100.0
PositiveControlPercentage == Pct(1000)

Header == <<"Sample", "Cell Viability %">>

----------------------------------------------------------------------------
(* Inputs of the pipeline model *)

Names == {"s1", "s2"}
ControlNames == {"ctrl"}

MainCells == {<<"A", r>> : r \in 1..SheetRows}
MainCellVals == {NoneVal, Num(1), Num(2), TextVal}
MainSheets == [MainCells -> MainCellVals]

\* what app.selection.address can be: one cell ("A1", a single token) or a
\* range <start>:<end> with start <= end
MainSelections ==
    {<< <<"A", 1>> >>} \cup
    {r \in {<< <<"A", a>>, <<"A", b>> >> : a \in 1..SheetRows, b \in 1..SheetRows} :
        r[1][2] <= r[2][2]}

SessionOutcomes == {"ok", "app_error", "open_error", "sheet_error"}

NoSheet == [c \in {} |-> NoneVal]

----------------------------------------------------------------------------
(* main *)

Init ==
    /\ pc = "file_dialog"
    /\ exc = "none"
    /\ console = {}
    /\ sheet = NoSheet
    /\ open_apps = 0
    /\ open_books = 0
    /\ selected_range = <<>>
    /\ replicate_cells = <<>>
    /\ replicate_values = <<>>
    /\ positive_control_name = ""
    /\ positive_control_replicate_values = <<>>
    /\ remove_outliers = FALSE
    /\ num_samples = 0
    /\ idx = 0
    /\ sample_name = ""
    /\ samples_data = <<>>
    /\ table_data = <<>>
    /\ filtered_values = <<>>
    /\ entered = <<>>

\* an exception nobody catches ends main
Uncaught(e) ==
    /\ pc' = "crashed"
    /\ exc' = e

\* lines 71-80
SelectFile ==
    /\ pc = "file_dialog"
    /\ \E file_path \in {"", "plate.xlsx"} :
          IF file_path = ""
          THEN /\ console' = console \cup {"no_file_selected"}
               /\ pc' = "done"
          ELSE /\ console' = console
               /\ pc' = "load_workbook"
    /\ UNCHANGED <<exc, sheet, open_apps, open_books, selected_range,
                   replicate_cells, replicate_values, positive_control_name,
                   positive_control_replicate_values, remove_outliers,
                   num_samples, idx, sample_name, samples_data, table_data,
                   filtered_values, entered>>

\* lines 83-87
LoadWorkbook ==
    /\ pc = "load_workbook"
    /\ \E loaded \in BOOLEAN :
          IF loaded
          THEN /\ console' = console
               /\ pc' = "sheet_prompt"
          ELSE /\ console' = console \cup {"error_loading_workbook"}
               /\ pc' = "done"
    /\ UNCHANGED <<exc, sheet, open_apps, open_books, selected_range,
                   replicate_cells, replicate_values, positive_control_name,
                   positive_control_replicate_values, remove_outliers,
                   num_samples, idx, sample_name, samples_data, table_data,
                   filtered_values, entered>>

\* lines 90-95
EnterSheetName ==
    /\ pc = "sheet_prompt"
    /\ \E known \in BOOLEAN :
          IF known
          THEN /\ \E sh \in MainSheets : sheet' = sh
               /\ console' = console \cup {"ask_sheet_name"}
               /\ pc' = "control_name"
          ELSE /\ sheet' = sheet
               /\ console' = console \cup {"ask_sheet_name", "sheet_does_not_exist"}
               /\ pc' = "done"
    /\ UNCHANGED <<exc, open_apps, open_books, selected_range,
                   replicate_cells, replicate_values, positive_control_name,
                   positive_control_replicate_values, remove_outliers,
                   num_samples, idx, sample_name, samples_data, table_data,
                   filtered_values, entered>>

\* line 98
EnterControlName ==
    /\ pc = "control_name"
    /\ \E name \in ControlNames : positive_control_name' = name
    /\ console' = console \cup {"ask_control_name"}
    /\ pc' = "control_session"
    /\ UNCHANGED <<exc, sheet, open_apps, open_books, selected_range,
                   replicate_cells, replicate_values,
                   positive_control_replicate_values, remove_outliers,
                   num_samples, idx, sample_name, samples_data, table_data,
                   filtered_values, entered>>

\* app = xw.App(); wb = app.books.open(); wb.sheets[name].activate(); input():
\* none of the four calls is inside a try
OpenSession(outcome, next) ==
    /\ open_apps' = IF outcome = "app_error" THEN open_apps ELSE open_apps + 1
    /\ open_books' = IF outcome \in {"app_error", "open_error"}
                     THEN open_books ELSE open_books + 1
    /\ IF outcome = "ok"
       THEN pc' = next /\ exc' = exc
       ELSE Uncaught(outcome)

\* wb.close(); app.quit()
CloseSession ==
    /\ open_books' = open_books - 1
    /\ open_apps' = open_apps - 1

\* lines 100-106
OpenControlSession ==
    /\ pc = "control_session"
    /\ \E outcome \in SessionOutcomes : OpenSession(outcome, "control_range")
    /\ console' = console \cup {"select_range"}
    /\ UNCHANGED <<sheet, selected_range, replicate_cells, replicate_values,
                   positive_control_name, positive_control_replicate_values,
                   remove_outliers, num_samples, idx, sample_name,
                   samples_data, table_data, filtered_values, entered>>

\* the try block of lines 109-112 and 149-152 on the address sel: whether it
\* raised, and the replicate values it computed
ReadSelection(sh, sel) ==
    IF ParseRaises(sel)
    THEN [raised |-> TRUE, values |-> <<>>, warnings |-> <<>>]
    ELSE process_replicates(sh, get_replicate_cells_from_range(sel))

\* variant: an empty control list does not end the run
SelectControlRange_NoAbort ==
    /\ pc = "control_range"
    /\ \E sel \in MainSelections :
          LET res == ReadSelection(sheet, sel)
              warned == IF res.warnings # <<>> THEN {"warning_missing_data"} ELSE {}
          IN  /\ CloseSession
              /\ IF res.raised
                 THEN /\ console' = console \cup warned \cup {"error_getting_range"}
                      /\ positive_control_replicate_values' = <<>>
                      /\ pc' = "done"
                 ELSE /\ console' = console \cup warned
                      /\ positive_control_replicate_values' = res.values
                      /\ pc' = "options"
    /\ UNCHANGED <<exc, sheet, selected_range, replicate_cells, replicate_values,
                   positive_control_name, remove_outliers, num_samples, idx,
                   sample_name, samples_data, table_data, filtered_values,
                   entered>>

\* lines 108-127
SelectControlRange ==
    /\ pc = "control_range"
    /\ \E sel \in MainSelections :
          LET res == ReadSelection(sheet, sel)
              warned == IF res.warnings # <<>> THEN {"warning_missing_data"} ELSE {}
          IN  /\ CloseSession
              /\ IF res.raised
                 THEN /\ console' = console \cup warned \cup {"error_getting_range"}
                      /\ positive_control_replicate_values' = <<>>
                      /\ pc' = "done"
                 ELSE IF res.values = <<>>
                 THEN /\ console' = console \cup warned \cup {"no_valid_control_data"}
                      /\ positive_control_replicate_values' = <<>>
                      /\ pc' = "done"
                 ELSE /\ console' = console \cup warned
                      /\ positive_control_replicate_values' = res.values
                      /\ pc' = "options"
    /\ UNCHANGED <<exc, sheet, selected_range, replicate_cells, replicate_values,
                   positive_control_name, remove_outliers, num_samples, idx,
                   sample_name, samples_data, table_data, filtered_values,
                   entered>>

\* lines 130-134: int(input(...)) raises ValueError on a non-numeric answer
AnswerOptions ==
    /\ pc = "options"
    /\ \E answer \in BOOLEAN : remove_outliers' = answer
    /\ console' = console \cup {"ask_remove_outliers", "ask_num_samples"}
    /\ \E numeric \in BOOLEAN :
          IF numeric
          THEN /\ \E n \in 0..MaxSamples : num_samples' = n
               /\ pc' = "sample_loop"
               /\ exc' = exc
          ELSE /\ num_samples' = num_samples
               /\ Uncaught("ValueError")
    /\ UNCHANGED <<sheet, open_apps, open_books, selected_range,
                   replicate_cells, replicate_values, positive_control_name,
                   positive_control_replicate_values, idx, sample_name,
                   samples_data, table_data, filtered_values, entered>>

\* lines 137-140
EnterSampleName ==
    /\ pc = "sample_loop"
    /\ idx < num_samples
    /\ \E name \in Names : sample_name' = name
    /\ console' = console \cup {"ask_sample_name"}
    /\ pc' = "sample_session"
    /\ UNCHANGED <<exc, sheet, open_apps, open_books, selected_range,
                   replicate_cells, replicate_values, positive_control_name,
                   positive_control_replicate_values, remove_outliers,
                   num_samples, idx, samples_data, table_data,
                   filtered_values, entered>>

\* lines 140-146
OpenSampleSession ==
    /\ pc = "sample_session"
    /\ \E outcome \in SessionOutcomes : OpenSession(outcome, "sample_range")
    /\ console' = console \cup {"select_range"}
    /\ UNCHANGED <<sheet, selected_range, replicate_cells, replicate_values,
                   positive_control_name, positive_control_replicate_values,
                   remove_outliers, num_samples, idx, sample_name,
                   samples_data, table_data, filtered_values, entered>>

\* variant: a sample without a valid replicate is kept
KeepSample_NoSkip(data, name, values) ==
    Append(data, [sample_name |-> name, replicate_values |-> values])

\* lines 161-168: a sample without a valid replicate is skipped
KeepSample(data, name, values) ==
    IF values = <<>> THEN data
    ELSE Append(data, [sample_name |-> name, replicate_values |-> values])

\* lines 148-168, one iteration of the sample loop from the selection on
SelectSampleRange ==
    /\ pc = "sample_range"
    /\ \E sel \in MainSelections :
          LET res == ReadSelection(sheet, sel)
              warned == IF res.warnings # <<>> THEN {"warning_missing_data"} ELSE {}
          IN  /\ CloseSession
              /\ entered' = Append(entered, [sample_name |-> sample_name, selection |-> sel])
              /\ IF res.raised
                 THEN /\ console' = console \cup warned \cup {"error_getting_range"}
                      /\ samples_data' = samples_data
                 ELSE /\ console' = console \cup warned \cup
                                     (IF res.values = <<>>
                                      THEN {"no_valid_sample_data"} ELSE {})
                      /\ samples_data' = KeepSample(samples_data, sample_name, res.values)
    /\ idx' = idx + 1
    /\ pc' = "sample_loop"
    /\ UNCHANGED <<exc, sheet, selected_range, replicate_cells, replicate_values,
                   positive_control_name, positive_control_replicate_values,
                   remove_outliers, num_samples, sample_name, table_data,
                   filtered_values>>

\* lines 170-172, once the sample loop is over
StartTable ==
    /\ pc = "sample_loop"
    /\ idx >= num_samples
    /\ table_data' = <<Header, <<positive_control_name, PositiveControlPercentage>> >>
    /\ pc' = "aggregate"
    /\ UNCHANGED <<exc, console, sheet, open_apps, open_books, selected_range,
                   replicate_cells, replicate_values, positive_control_name,
                   positive_control_replicate_values, remove_outliers,
                   num_samples, idx, sample_name, samples_data,
                   filtered_values, entered>>

\* variant: the control's values are outlier-filtered like a sample's
AggregateSample_FilteredControl ==
    /\ pc = "aggregate"
    /\ Len(table_data) - 2 < Len(samples_data)
    /\ LET sample == samples_data[Len(table_data) - 1]
           kept   == FilterValues(remove_outliers, sample.replicate_values)
       IN  /\ filtered_values' = kept
           /\ console' = IF Len(kept) # Len(sample.replicate_values)
                         THEN console \cup {"removed_outliers"} ELSE console
           /\ table_data' = Append(table_data,
                  <<sample.sample_name,
                    ViabilityPercentage(kept,
                       FilterValues(remove_outliers, positive_control_replicate_values))>>)
    /\ UNCHANGED <<pc, exc, sheet, open_apps, open_books, selected_range,
                   replicate_cells, replicate_values, positive_control_name,
                   positive_control_replicate_values, remove_outliers,
                   num_samples, idx, sample_name, samples_data, entered>>

\* lines 174-198, one iteration: the sample after those already in the table
AggregateSample ==
    /\ pc = "aggregate"
    /\ Len(table_data) - 2 < Len(samples_data)
    /\ LET sample == samples_data[Len(table_data) - 1]
           kept   == FilterValues(remove_outliers, sample.replicate_values)
       IN  /\ filtered_values' = kept
           /\ console' = IF Len(kept) # Len(sample.replicate_values)
                         THEN console \cup {"removed_outliers"} ELSE console
           /\ table_data' = Append(table_data,
                  <<sample.sample_name,
                    ViabilityPercentage(kept, positive_control_replicate_values)>>)
    /\ UNCHANGED <<pc, exc, sheet, open_apps, open_books, selected_range,
                   replicate_cells, replicate_values, positive_control_name,
                   positive_control_replicate_values, remove_outliers,
                   num_samples, idx, sample_name, samples_data, entered>>

\* lines 200-202
DisplayTable ==
    /\ pc = "aggregate"
    /\ Len(table_data) - 2 = Len(samples_data)
    /\ console' = console \cup {"results_table"}
    /\ pc' = "export"
    /\ UNCHANGED <<exc, sheet, open_apps, open_books, selected_range,
                   replicate_cells, replicate_values, positive_control_name,
                   positive_control_replicate_values, remove_outliers,
                   num_samples, idx, sample_name, samples_data, table_data,
                   filtered_values, entered>>

\* lines 204-219: the whole export is inside one try
AskExport ==
    /\ pc = "export"
    /\ \E answer \in BOOLEAN, saved \in BOOLEAN :
          console' = console \cup {"ask_export"} \cup
                     (IF ~answer THEN {}
                      ELSE IF saved THEN {"document_saved"}
                      ELSE {"error_exporting"})
    /\ pc' = "done"
    /\ UNCHANGED <<exc, sheet, open_apps, open_books, selected_range,
                   replicate_cells, replicate_values, positive_control_name,
                   positive_control_replicate_values, remove_outliers,
                   num_samples, idx, sample_name, samples_data, table_data,
                   filtered_values, entered>>

Next ==
    \/ SelectFile
    \/ LoadWorkbook
    \/ EnterSheetName
    \/ EnterControlName
    \/ OpenControlSession
    \/ SelectControlRange
    \/ AnswerOptions
    \/ EnterSampleName
    \/ OpenSampleSession
    \/ SelectSampleRange
    \/ StartTable
    \/ AggregateSample
    \/ DisplayTable
    \/ AskExport

Spec == Init /\ [][Next]_vars

----------------------------------------------------------------------------
(* get_replicate_cells_from_range on its own: every address over two      *)
(* columns and MaxRow rows, a single cell or <start>:<end> in any order    *)

ParseCells == {<<c, r>> : c \in {"A", "B"}, r \in 1..MaxRow}
ParseAddresses ==
    {<<c>> : c \in ParseCells} \cup {<<c, e>> : c \in ParseCells, e \in ParseCells}

InitParse ==
    /\ pc = "call_parse"
    /\ selected_range \in ParseAddresses
    /\ exc = "none"
    /\ console = {}
    /\ sheet = NoSheet
    /\ open_apps = 0
    /\ open_books = 0
    /\ replicate_cells = <<>>
    /\ replicate_values = <<>>
    /\ positive_control_name = ""
    /\ positive_control_replicate_values = <<>>
    /\ remove_outliers = FALSE
    /\ num_samples = 0
    /\ idx = 0
    /\ sample_name = ""
    /\ samples_data = <<>>
    /\ table_data = <<>>
    /\ filtered_values = <<>>
    /\ entered = <<>>

\* replicate_cells = get_replicate_cells_from_range(selected_range)
CallParse ==
    /\ pc = "call_parse"
    /\ IF ParseRaises(selected_range)
       THEN /\ exc' = "ValueError"
            /\ replicate_cells' = replicate_cells
       ELSE /\ exc' = exc
            /\ replicate_cells' = get_replicate_cells_from_range(selected_range)
    /\ pc' = "ret_parse"
    /\ UNCHANGED <<console, sheet, open_apps, open_books, selected_range,
                   replicate_values, positive_control_name,
                   positive_control_replicate_values, remove_outliers,
                   num_samples, idx, sample_name, samples_data, table_data,
                   filtered_values, entered>>

NextParse == CallParse

SpecParse == InitParse /\ [][NextParse]_vars

----------------------------------------------------------------------------
(* process_replicates on its own: every sheet of ProcRows rows, the pairs  *)
(* of every range the parser accepts on them                               *)

ProcCells == {<<"A", r>> : r \in 1..ProcRows}
ProcCellVals == {NoneVal, Num(2), Num(5), TextVal}
ProcRanges ==
    {r \in {<< <<"A", a>>, <<"A", b>> >> : a \in 1..ProcRows, b \in 1..ProcRows} :
        r[1][2] <= r[2][2]}

InitProc ==
    /\ pc = "call_process"
    /\ sheet \in [ProcCells -> ProcCellVals]
    /\ \E r \in ProcRanges :
          /\ selected_range = r
          /\ replicate_cells = get_replicate_cells_from_range(r)
    /\ exc = "none"
    /\ console = {}
    /\ open_apps = 0
    /\ open_books = 0
    /\ replicate_values = <<>>
    /\ positive_control_name = ""
    /\ positive_control_replicate_values = <<>>
    /\ remove_outliers = FALSE
    /\ num_samples = 0
    /\ idx = 0
    /\ sample_name = ""
    /\ samples_data = <<>>
    /\ table_data = <<>>
    /\ filtered_values = <<>>
    /\ entered = <<>>

\* replicate_values = process_replicates(sheet, replicate_cells)
CallProcess ==
    /\ pc = "call_process"
    /\ LET res == process_replicates(sheet, replicate_cells)
       IN  /\ console' = IF res.warnings # <<>>
                         THEN console \cup {"warning_missing_data"} ELSE console
           /\ IF res.raised
              THEN /\ exc' = "TypeError"
                   /\ replicate_values' = replicate_values
              ELSE /\ exc' = exc
                   /\ replicate_values' = res.values
    /\ pc' = "ret_process"
    /\ UNCHANGED <<sheet, open_apps, open_books, selected_range,
                   replicate_cells, positive_control_name,
                   positive_control_replicate_values, remove_outliers,
                   num_samples, idx, sample_name, samples_data, table_data,
                   filtered_values, entered>>

NextProc == CallProcess

SpecProc == InitProc /\ [][NextProc]_vars

----------------------------------------------------------------------------
(* The aggregation of lines 170-202 on its own: main at the end of the     *)
(* sample loop, with a control and one sample whose replicate values are   *)
(* any non-empty lists of up to MaxReps values (lines 121 and 161 let no   *)
(* empty list through)                                                     *)

AggVals == {-1, 0, 1, 4}

RECURSIVE SeqsUpTo(_, _)
SeqsUpTo(S, n) ==
    IF n = 0 THEN {<<>>}
    ELSE LET shorter == SeqsUpTo(S, n - 1)
         IN  shorter \cup {Append(q, x) : q \in {t \in shorter : Len(t) = n - 1}, x \in S}

SampleLists ==
    (SeqsUpTo(AggVals, MaxReps) \ {<<>>})
    \cup {<<10, 12, 11, 13, 100>>, <<90, 95>>}

ControlLists ==
    {<<1>>, <<4>>, <<-1>>, <<0>>, <<1, 4>>, <<-1, 1>>, <<1, 1, 1, 4>>, <<100, 110, 105>>}

InitAgg ==
    /\ pc = "sample_loop"
    /\ positive_control_replicate_values \in ControlLists
    /\ remove_outliers \in BOOLEAN
    /\ \E values \in SampleLists :
          samples_data = <<[sample_name |-> "s1", replicate_values |-> values]>>
    /\ num_samples = 1
    /\ idx = 1
    /\ sample_name = "s1"
    /\ positive_control_name = "ctrl"
    /\ exc = "none"
    /\ console = {"ask_sheet_name", "ask_control_name", "select_range",
                  "ask_remove_outliers", "ask_num_samples", "ask_sample_name"}
    /\ sheet = NoSheet
    /\ open_apps = 0
    /\ open_books = 0
    /\ selected_range = <<>>
    /\ replicate_cells = <<>>
    /\ replicate_values = <<>>
    /\ table_data = <<>>
    /\ filtered_values = <<>>
    /\ entered = <<>>

NextAgg ==
    \/ StartTable
    \/ AggregateSample
    \/ DisplayTable

SpecAgg == InitAgg /\ [][NextAgg]_vars

----------------------------------------------------------------------------
(* Properties *)

\* C1: for a single-column range <col><start>:<col><end> with start <= end
\* and an even number of rows, the parser returns exactly (end-start+1)/2
\* pairs, pair i (from 0) being (<col><start+2i>, <col><start+2i+1>).
C1_EvenRangePairs ==
    (/\ pc = "ret_parse"
     /\ Len(selected_range) = 2
     /\ selected_range[1][1] = selected_range[2][1]
     /\ selected_range[1][2] <= selected_range[2][2]
     /\ (selected_range[2][2] - selected_range[1][2] + 1) % 2 = 0)
    => LET col   == selected_range[1][1]
           start == selected_range[1][2]
           end   == selected_range[2][2]
       IN  /\ exc = "none"
           /\ Len(replicate_cells) = (end - start + 1) \div 2
           /\ \A i \in 0..(Len(replicate_cells) - 1) :
                 replicate_cells[i + 1] =
                    << <<col, start + 2 * i>>, <<col, start + 2 * i + 1>> >>

\* the selection "A1:A8" has been parsed into four pairs
C1_Witness ==
    /\ pc = "ret_parse"
    /\ selected_range = << <<"A", 1>>, <<"A", 8>> >>
    /\ replicate_cells = << << <<"A", 1>>, <<"A", 2>> >>, << <<"A", 3>>, <<"A", 4>> >>,
                            << <<"A", 5>>, <<"A", 6>> >>, << <<"A", 7>>, <<"A", 8>> >> >>

\* C9: every cell address the parser produces lies within the rows
\* [start, end] of the selected range; no pair has its 600nm cell on row end+1.
C9_AddressesWithinRange ==
    (/\ pc = "ret_parse"
     /\ Len(selected_range) = 2
     /\ selected_range[1][2] <= selected_range[2][2])
    => \A i \in 1..Len(replicate_cells) : \A j \in 1..2 :
          /\ replicate_cells[i][j][2] >= selected_range[1][2]
          /\ replicate_cells[i][j][2] <= selected_range[2][2]

\* the readings of every pair are numbers or missing
NumericReadings(sh, cells) ==
    \A i \in 1..Len(cells) : \A j \in 1..2 :
        CellValue(sh, cells[i][j]).kind \in {"none", "num"}

BothPresent(sh, p) ==
    CellValue(sh, p[1]).kind = "num" /\ CellValue(sh, p[2]).kind = "num"

\* C2: process_replicates returns, in pair order, exactly one value
\* value570*117216 - value600*80586 for each pair whose two readings are both
\* present and nothing for a pair with a missing reading; a missing reading
\* raises nothing and leaves the other pairs' values as they are.
C2_ValuesOfPresentPairs ==
    (pc = "ret_process" /\ NumericReadings(sheet, replicate_cells))
    => LET present == SelectSeq(replicate_cells, LAMBDA p : BothPresent(sheet, p))
       IN  /\ exc = "none"
           /\ Len(replicate_values) = Len(present)
           /\ \A i \in 1..Len(present) :
                 replicate_values[i] =
                    CellValue(sheet, present[i][1]).v * 117216
                    - CellValue(sheet, present[i][2]).v * 80586

\* two pairs, the first with a missing reading, the second read as 5 and 2
C2_Witness ==
    /\ pc = "ret_process"
    /\ Len(replicate_cells) = 2
    /\ CellValue(sheet, replicate_cells[1][2]) = NoneVal
    /\ CellValue(sheet, replicate_cells[2][1]) = Num(5)
    /\ CellValue(sheet, replicate_cells[2][2]) = Num(2)
    /\ replicate_values = <<424908>>
    /\ exc = "none"

\* an entered sample whose selection parsed, raised nothing and yielded at
\* least one value
ValidEntry(e) ==
    /\ Len(e.selection) = 2
    /\ LET cells == get_replicate_cells_from_range(e.selection)
       IN  /\ \A i \in 1..Len(cells) :
                 \/ BothPresent(sheet, cells[i])
                 \/ CellValue(sheet, cells[i][1]).kind = "none"
                 \/ CellValue(sheet, cells[i][2]).kind = "none"
           /\ \E i \in 1..Len(cells) : BothPresent(sheet, cells[i])

\* C3: a displayed results table has the positive control with exactly 100.0
\* as its first data row, followed by exactly the entered samples that
\* yielded a valid replicate value and whose selection did not fail, each
\* once and in the order entered; every requested sample was processed.
C3_ResultsTableRows ==
    ("results_table" \in console)
    => LET valid == SelectSeq(entered, ValidEntry)
       IN  /\ Len(entered) = num_samples
           /\ table_data[1] = <<"Sample", "Cell Viability %">>
           /\ table_data[2][1] = positive_control_name
           /\ table_data[2][2] = [kind |-> "num", tenths |-> 1000]
           /\ Len(table_data) = 2 + Len(valid)
           /\ \A k \in 1..Len(valid) : table_data[k + 2][1] = valid[k].sample_name

\* a table is displayed after a first sample without valid data and a second,
\* differently named one with data
C3_Witness ==
    /\ "results_table" \in console
    /\ Len(entered) = 2
    /\ ~ ValidEntry(entered[1])
    /\ ValidEntry(entered[2])
    /\ entered[1].sample_name # entered[2].sample_name
    /\ Len(table_data) = 3
    /\ "no_valid_sample_data" \in console

Abs(x) == IF x < 0 THEN -x ELSE x

\* C4: a sample row's percentage is 100 * mean(kept values) / mean(all the
\* control's replicate values) rounded to one decimal place (nearest tenth),
\* the control never being outlier-filtered; with a zero control average the
\* quotient is not a number.
C4_PercentageOfControlMean ==
    (pc \in {"aggregate", "export"} /\ Len(table_data) = 3)
    => LET n == 1000 * SumSeq(filtered_values) * Len(positive_control_replicate_values)
           d == Len(filtered_values) * SumSeq(positive_control_replicate_values)
           p == table_data[3][2]
       IN  IF d = 0 THEN p.kind # "num"
           ELSE /\ p.kind = "num"
                /\ 2 * Abs(p.tenths * d - n) <= Abs(d)

\* control [100,110,105] and sample [90,95] give 88.1
C4_Witness ==
    /\ pc = "export"
    /\ positive_control_replicate_values = <<100, 110, 105>>
    /\ samples_data[1].replicate_values = <<90, 95>>
    /\ remove_outliers
    /\ table_data[3] = <<"s1", [kind |-> "num", tenths |-> 881]>>

\* 4 * the p-th quartile (p = 1 or 3) by linear interpolation, as a weighted
\* mean of the two neighbouring order statistics
Quartile4(values, p) ==
    LET s  == SortSeq(values, LAMBDA a, b : a < b)
        h4 == p * (Len(values) - 1)
        lo == h4 \div 4 + 1
        hi == IF h4 % 4 = 0 THEN lo ELSE lo + 1
        w  == h4 % 4
    IN  (4 - w) * s[lo] + w * s[hi]

\* Q1 - 1.5*(Q3-Q1) <= v <= Q3 + 1.5*(Q3-Q1), all times 8
WithinFences(values, v) ==
    LET q1 == Quartile4(values, 1)
        q3 == Quartile4(values, 3)
    IN  /\ 2 * q1 - 3 * (q3 - q1) <= 8 * v
        /\ 8 * v <= 2 * q3 + 3 * (q3 - q1)

\* C5: outlier filtering is applied to a sample iff the user answered yes and
\* the sample has more than 2 values; the kept values are then exactly those
\* within [Q1 - 1.5*IQR, Q3 + 1.5*IQR], bounds included, in their original
\* order; otherwise all values are used unchanged.
C5_KeptValues ==
    (pc \in {"aggregate", "export"} /\ Len(table_data) = 3)
    => LET values == samples_data[1].replicate_values
       IN  filtered_values =
              IF remove_outliers /\ Len(values) > 2
              THEN SelectSeq(values, LAMBDA v : WithinFences(values, v))
              ELSE values

\* [10,12,11,13,100] loses 100 and the mean is taken over the other four
C5_Witness ==
    /\ pc = "export"
    /\ remove_outliers
    /\ samples_data[1].replicate_values = <<10, 12, 11, 13, 100>>
    /\ filtered_values = <<10, 12, 11, 13>>
    /\ "removed_outliers" \in console
    /\ positive_control_replicate_values = <<1>>
    /\ table_data[3][2] = [kind |-> "num", tenths |-> 11500]

\* C10: the list a sample's average is taken over is never empty: no sample
\* reaches the averaging step without a value and the IQR filter always
\* keeps at least one value.
C10_AverageOverNonEmptyList ==
    /\ \A i \in 1..Len(samples_data) : samples_data[i].replicate_values # <<>>
    /\ (pc \in {"aggregate", "export"} /\ Len(table_data) = 3)
       => /\ filtered_values # <<>>
          /\ table_data[3][2].kind = "nan"
                => SumSeq(positive_control_replicate_values) = 0

\* the filter removed something from a sample of more than 2 values
C10_Witness ==
    /\ pc = "export"
    /\ remove_outliers
    /\ Len(samples_data[1].replicate_values) > 2
    /\ Len(filtered_values) < Len(samples_data[1].replicate_values)
    /\ Len(filtered_values) >= 1

\* C6: when the positive control yields no valid replicate value the run
\* aborts with a message: no outlier or sample prompt is issued, no sample is
\* processed and no results table is displayed or exported.
C6_ControlWithoutDataAborts ==
    (positive_control_replicate_values = <<>>)
    => /\ console \cap {"ask_remove_outliers", "ask_num_samples", "ask_sample_name",
                        "results_table", "ask_export", "document_saved",
                        "error_exporting"} = {}
       /\ samples_data = <<>>
       /\ entered = <<>>
       /\ table_data = <<>>
       /\ pc \in {"file_dialog", "load_workbook", "sheet_prompt", "control_name",
                  "control_session", "control_range", "done", "crashed"}
       /\ ("select_range" \in console /\ pc = "done")
             => console \cap {"no_valid_control_data", "error_getting_range"} # {}

\* the control's pairs all had a missing reading and the run has ended
C6_Witness ==
    /\ pc = "done"
    /\ "no_valid_control_data" \in console
    /\ "warning_missing_data" \in console
    /\ positive_control_replicate_values = <<>>
    /\ open_apps = 0

\* C7: every spreadsheet session opened for a range selection is closed
\* before the next step: no new session is opened, no result computed and the
\* run does not end while an earlier session is still open.
C7_SessionsClosed ==
    /\ open_apps <= 1
    /\ open_books <= 1
    /\ pc \notin {"control_range", "sample_range"} => (open_apps = 0 /\ open_books = 0)

\* C8: every failure of a step of main is caught at that step; no run of
\* main ends with an uncaught exception.
C8_NoUncaughtException ==
    exc = "none" /\ pc # "crashed"

====
